---------------------------- MODULE Spec2Model ----------------------------
(***************************************************************************)
(* Board-game-shelf server: the games, wishlist rows, tags, sessions,       *)
(* players and files as the route handlers of                              *)
(* src/src/routes/index.routes.ts drive them through the database of       *)
(* src/unnamed/part_000 (the SQL migration).                               *)
(*                                                                         *)
(* Every `await prisma...` of a handler is one atomic database step; the   *)
(* steps of different requests interleave freely.  A request's arrival is  *)
(* merged with its first database call: the handler reads no shared state  *)
(* before that call.  Requests carry no identity of their own, so the      *)
(* handlers that are between two database calls form a bag.                *)
(*                                                                         *)
(* Spec holds the game and wishlist routes, SpecTags the tag loops of the  *)
(* game routes, SpecSessions the session routes, SpecResolve both          *)
(* get-or-create loops with the player routes, SpecAssoc every table with *)
(* the routes that delete rows, and SpecRefs two games with their          *)
(* dependent rows.  SpecConnect and SpecServe hold the database connection *)
(* of src/src/db/index.ts: connectWithRetry, the health checks and the     *)
(* monitor, and the running server with its middleware and shutdown.       *)
(***************************************************************************)
EXTENDS Naturals, FiniteSets, Sequences, Bags, TLC

\* ------------------------------------------------------------------ bounds
\* Games created in a run (Game ids are never reused).
MaxGames == 1
\* Handlers that may be between two database calls at a time.
MaxReqs == 2

GameIds == 1 .. MaxGames

\* JavaScript's undefined: a field the request body does not carry.
Absent == "absent"
\* The reasons a request body may carry.
BodyReasons == {Absent, "", "heard good things"}
\* The isOwned values the body of PUT /games/:gameId may carry.
BodyOwned == {Absent, "true", "false"}

VARIABLES
    games,        \* table Game: id -> [isOwned]
    nextGameId,   \* number of Game ids handed out so far
    wishlist,     \* table Wishlist: bag of rows [gameId, reason] (row ids left out)
    gameTags,     \* join table _GameToTag: set of <<gameId, tagId>>
    sessions,     \* table Session: set of rows [id, gameId]
    files,        \* table File: set of rows [id, gameId]
    tags,         \* table Tag: set of rows [id, title]
    nextTagId,    \* number of Tag ids handed out so far
    players,      \* table Player: set of rows [id, name]
    nextPlayerId, \* number of Player ids handed out so far
    sessionPlayers, \* join table _PlayerToSession: set of <<playerId, sessionId>>
    nextSessionId,  \* number of Session ids handed out so far
    nextFileId,   \* number of File ids handed out so far
    inflight,     \* bag of suspended handlers (their resume point and locals)
    last,         \* the response sent last: [op, gameId, resp]
    isConnected,  \* db/index: the connection status
    connectionRetries, \* db/index: the retry counter all calls share
    reachable,    \* whether the database answers right now
    process,      \* the Node process: [pc, exitCode]
    metrics,      \* the monitor's counters
    lastConnect   \* how the last call of connectWithRetry ended

\* The tables the tag, player, session and file routes write.
labelTables == <<tags, nextTagId, players, nextPlayerId, sessionPlayers,
                 nextSessionId, nextFileId>>
store == <<games, nextGameId, wishlist, gameTags, sessions, files, labelTables>>
\* The state of src/db/index.ts and of its monitor.
connection == <<isConnected, connectionRetries, reachable, process, metrics,
                lastConnect>>
vars == <<games, nextGameId, wishlist, gameTags, sessions, files, labelTables,
          inflight, last, connection>>

\* ------------------------------------------------------------- responses
NoResp == [status |-> 0, error |-> ""]
Json(status, error) == [status |-> status, error |-> error]

\* error-handling/index: next(err) ends in the error middleware, which
\* answers 500 when no response was sent yet.
errorHandling == Json(500, "Internal server error. Check the server console")

\* ------------------------------------------------------ database queries
\* prisma.game.findUnique({where: {id}}) finds a row.
GameExists(g) == g \in DOMAIN games

\* The Wishlist rows of a game.
WishlistRows(g) == {w \in BagToSet(wishlist) : w.gameId = g}

\* How many Wishlist rows a game has.
WishlistCount(g) ==
    LET rows == WishlistRows(g)
        sum[S \in SUBSET rows] ==
            IF S = {} THEN 0
            ELSE LET w == CHOOSE x \in S : TRUE
                 IN  CopiesIn(w, wishlist) + sum[S \ {w}]
    IN  sum[rows]

\* include: {wishlist: true} finds a row.
HasWishlist(g) == WishlistRows(g) # {}

\* Wishlist_gameId_key: a second row for the same game is refused.
WishlistUniqueViolation(g) == \E w \in BagToSet(wishlist) : w.gameId = g

WishlistFkViolationNever(g) == FALSE

\* Wishlist_gameId_fkey: the row must reference an existing Game.
WishlistFkViolation(g) == g \notin DOMAIN games

DeleteRestrictedNoFiles(g) ==
    \/ \E w \in BagToSet(wishlist) : w.gameId = g
    \/ \E s \in sessions : s.gameId = g

\* Session_gameId_fkey, Wishlist_gameId_fkey, File_gameId_fkey are
\* ON DELETE RESTRICT: a Game with such rows cannot be deleted.
DeleteRestricted(g) ==
    \/ \E w \in BagToSet(wishlist) : w.gameId = g
    \/ \E s \in sessions : s.gameId = g
    \/ \E f \in files : f.gameId = g

\* const reason = req.body?.reason || "";
ReasonOf(bodyReason) ==
    IF bodyReason = Absent \/ bodyReason = "" THEN "" ELSE bodyReason

\* GET /games/:gameId: findFirst({where: {id}, include: {wishlist: true}}),
\* the games found (none: null) with the wishlist rows embedded (none: null).
FetchGame(g) ==
    {[isOwned |-> games[h].isOwned, wishlist |-> WishlistRows(h)] :
        h \in {k \in DOMAIN games : k = g}}

\* ------------------------------------------------------------------ init
Init ==
    /\ games = << >>
    /\ nextGameId = 0
    /\ wishlist = EmptyBag
    /\ gameTags = {}
    /\ sessions = {}
    /\ files = {}
    /\ tags = {}
    /\ nextTagId = 0
    /\ players = {}
    /\ nextPlayerId = 0
    /\ sessionPlayers = {}
    /\ nextSessionId = 0
    /\ nextFileId = 0
    /\ inflight = EmptyBag
    /\ last = [op |-> "none", gameId |-> 0, resp |-> NoResp]
    /\ isConnected = FALSE
    /\ connectionRetries = 0
    /\ reachable = TRUE
    /\ process = [pc |-> "loading", exitCode |-> 0]
    /\ metrics = [totalQueries |-> 0, successfulQueries |-> 0, failedQueries |-> 0]
    /\ lastConnect = [outcome |-> "none", attempts |-> 0, succeeded |-> FALSE]

\* ------------------------------------------------------ request plumbing
\* A suspended handler: where it resumes and the locals it holds.
Handler(p, g, rsn) == [pc |-> p, gameId |-> g, reason |-> rsn]

\* A request can be taken on.
CanArrive == BagCardinality(inflight) < MaxReqs

\* A handler suspends at its first await's continuation.
Suspend(h) == inflight' = inflight (+) SetToBag({h})

\* A suspended handler h resumes and suspends again as k.
Resume(h, k) == inflight' = (inflight (-) SetToBag({h})) (+) SetToBag({k})

\* A suspended handler h resumes and returns.
Return(h) == inflight' = inflight (-) SetToBag({h})

\* res.status(...).json(...) of route o for game g.
Respond(o, g, rs) == last' = [op |-> o, gameId |-> g, resp |-> rs]

\* ------------------------------------------------------- POST /games/
\* Without tags the handler is the single prisma.game.create.
PostGame(isOwned) ==
    /\ CanArrive
    /\ nextGameId < MaxGames
    /\ nextGameId' = nextGameId + 1
    /\ games' = [g \in DOMAIN games \cup {nextGameId + 1} |->
                    IF g = nextGameId + 1 THEN [isOwned |-> isOwned] ELSE games[g]]
    /\ Respond("postGame", nextGameId + 1, Json(201, ""))
    /\ UNCHANGED <<wishlist, gameTags, sessions, files, labelTables, inflight>>
    /\ UNCHANGED connection

\* ------------------------------------------------- PUT /games/:gameId
\* The data of prisma.game.update: the body's fields spread over the row.
UpdatedGame(row, isOwned) ==
    IF isOwned = Absent THEN row ELSE [row EXCEPT !.isOwned = (isOwned = "true")]

PutGameClearsEveryGame(g, isOwned) ==
    /\ CanArrive
    /\ IF GameExists(g)
       THEN /\ games' = [games EXCEPT ![g] = UpdatedGame(games[g], isOwned)]
            /\ gameTags' = {}
            /\ Respond("putGame", g, Json(200, ""))
       ELSE /\ UNCHANGED <<games, gameTags>>
            /\ Respond("putGame", g, Json(500, "Error updating game"))
    /\ UNCHANGED <<nextGameId, wishlist, sessions, files, labelTables, inflight>>
    /\ UNCHANGED connection

\* Without tags: tags: {set: []} and the body's fields, in one update;
\* a missing row makes the update throw, which the handler answers 500.
PutGame(g, isOwned) ==
    /\ CanArrive
    /\ IF GameExists(g)
       THEN /\ games' = [games EXCEPT ![g] = UpdatedGame(games[g], isOwned)]
            /\ gameTags' = {l \in gameTags : l[1] # g}
            /\ Respond("putGame", g, Json(200, ""))
       ELSE /\ UNCHANGED <<games, gameTags>>
            /\ Respond("putGame", g, Json(500, "Error updating game"))
    /\ UNCHANGED <<nextGameId, wishlist, sessions, files, labelTables, inflight>>
    /\ UNCHANGED connection

\* ---------------------------------------------- DELETE /games/:gameId
\* prisma.game.delete: the join rows go with the game; a missing row or a
\* restricting row makes it throw, which the handler answers 500.
DeleteGame(g) ==
    /\ CanArrive
    /\ IF GameExists(g) /\ ~DeleteRestricted(g)
       THEN /\ games' = [h \in DOMAIN games \ {g} |-> games[h]]
            /\ gameTags' = {l \in gameTags : l[1] # g}
            /\ Respond("deleteGame", g, Json(204, ""))
       ELSE /\ UNCHANGED <<games, gameTags>>
            /\ Respond("deleteGame", g, Json(500, "Error deleting game"))
    /\ UNCHANGED <<nextGameId, wishlist, sessions, files, labelTables, inflight>>
    /\ UNCHANGED connection

\* ------------------------------------- POST /games/:gameId/addWishlist
AddWishlistGameCheckNoNull(g) ==
    IF ~GameExists(g) THEN errorHandling
    ELSE IF games[g].isOwned THEN Json(400, "Cannot add owned game to wishlist")
    ELSE NoResp

AddWishlistGameCheckNoOwned(g) ==
    IF ~GameExists(g) THEN Json(404, "Game not found") ELSE NoResp

\* What the handler answers right after looking the game up (NoResp: it
\* goes on).
AddWishlistGameCheck(g) ==
    IF ~GameExists(g) THEN Json(404, "Game not found")
    ELSE IF games[g].isOwned THEN Json(400, "Cannot add owned game to wishlist")
    ELSE NoResp

\* prisma.game.findUnique, then the two early returns.
AddWishlistFindGame(g, bodyReason) ==
    /\ CanArrive
    /\ IF AddWishlistGameCheck(g) # NoResp
       THEN /\ Respond("addWishlist", g, AddWishlistGameCheck(g))
            /\ UNCHANGED inflight
       ELSE /\ Suspend(Handler("aw_check", g, ReasonOf(bodyReason)))
            /\ UNCHANGED last
    /\ UNCHANGED store
    /\ UNCHANGED connection

AlreadyInWishlistNever(g) == FALSE

\* "Check if already in wishlist": prisma.wishlist.findUnique finds a row.
AlreadyInWishlist(g) == HasWishlist(g)

\* prisma.wishlist.findUnique, then the early return.
AddWishlistFindExisting(h) ==
    /\ BagIn(h, inflight)
    /\ h.pc = "aw_check"
    /\ IF AlreadyInWishlist(h.gameId)
       THEN /\ Return(h)
            /\ Respond("addWishlist", h.gameId, Json(400, "Game is already in wishlist"))
       ELSE /\ Resume(h, [h EXCEPT !.pc = "aw_create"])
            /\ UNCHANGED last
    /\ UNCHANGED store
    /\ UNCHANGED connection

WishlistCreateAcceptedNoUnique(g) == ~WishlistFkViolation(g)

\* The database accepts a new Wishlist row for game g.
WishlistCreateAccepted(g) ==
    ~WishlistUniqueViolation(g) /\ ~WishlistFkViolation(g)

\* prisma.wishlist.create: the row, or a constraint error passed to next().
AddWishlistCreate(h) ==
    /\ BagIn(h, inflight)
    /\ h.pc = "aw_create"
    /\ Return(h)
    /\ IF WishlistCreateAccepted(h.gameId)
       THEN /\ wishlist' = wishlist (+)
                   SetToBag({[gameId |-> h.gameId, reason |-> h.reason]})
            /\ Respond("addWishlist", h.gameId, Json(201, ""))
       ELSE /\ UNCHANGED wishlist
            /\ Respond("addWishlist", h.gameId, errorHandling)
    /\ UNCHANGED <<games, nextGameId, gameTags, sessions, files, labelTables>>
    /\ UNCHANGED connection

\* ---------------------------------- POST /games/:gameId/removeWishlist
\* What the handler answers right after looking the game up (NoResp: it
\* goes on).
RemoveWishlistGameCheck(g) ==
    IF ~GameExists(g) THEN Json(404, "Game not found")
    ELSE IF ~HasWishlist(g) THEN Json(400, "Game is not in wishlist")
    ELSE NoResp

\* prisma.game.findUnique({include: {wishlist: true}}), then the early returns.
RemoveWishlistFindGame(g) ==
    /\ CanArrive
    /\ IF RemoveWishlistGameCheck(g) # NoResp
       THEN /\ Respond("removeWishlist", g, RemoveWishlistGameCheck(g))
            /\ UNCHANGED inflight
       ELSE /\ Suspend(Handler("rw_tx", g, ""))
            /\ UNCHANGED last
    /\ UNCHANGED store
    /\ UNCHANGED connection

TransactionDeleteOnly(g) ==
    /\ wishlist' = [w \in {x \in BagToSet(wishlist) : x.gameId # g} |-> wishlist[w]]
    /\ UNCHANGED games

TransactionUpdateOnly(g) ==
    /\ games' = [games EXCEPT ![g] = [@ EXCEPT !.isOwned = TRUE]]
    /\ UNCHANGED wishlist

TransactionOwnsEveryGame(g) ==
    /\ wishlist' = [w \in {x \in BagToSet(wishlist) : x.gameId # g} |-> wishlist[w]]
    /\ games' = [k \in DOMAIN games |-> [games[k] EXCEPT !.isOwned = TRUE]]

\* The two writes of the transaction, committed together.
TransactionWrites(g) ==
    /\ wishlist' = [w \in {x \in BagToSet(wishlist) : x.gameId # g} |-> wishlist[w]]
    /\ games' = [games EXCEPT ![g] = [@ EXCEPT !.isOwned = TRUE]]

\* prisma.$transaction([wishlist.delete, game.update]): both writes or, when
\* the row to delete (or the game) is gone, neither and the error to next().
RemoveWishlistTransaction(h) ==
    /\ BagIn(h, inflight)
    /\ h.pc = "rw_tx"
    /\ Return(h)
    /\ IF HasWishlist(h.gameId) /\ GameExists(h.gameId)
       THEN /\ TransactionWrites(h.gameId)
            /\ Respond("removeWishlist", h.gameId,
                       Json(200, "Game removed from wishlist and marked as owned"))
       ELSE /\ UNCHANGED <<games, wishlist>>
            /\ Respond("removeWishlist", h.gameId, errorHandling)
    /\ UNCHANGED <<nextGameId, gameTags, sessions, files, labelTables>>
    /\ UNCHANGED connection

\* ------------------------------------------------------------------ next
Next ==
    \/ \E o \in BOOLEAN : PostGame(o)
    \/ \E g \in GameIds, o \in BodyOwned : PutGame(g, o)
    \/ \E g \in GameIds : DeleteGame(g)
    \/ \E g \in GameIds, b \in BodyReasons : AddWishlistFindGame(g, b)
    \/ \E h \in BagToSet(inflight) : AddWishlistFindExisting(h)
    \/ \E h \in BagToSet(inflight) : AddWishlistCreate(h)
    \/ \E g \in GameIds : RemoveWishlistFindGame(g)
    \/ \E h \in BagToSet(inflight) : RemoveWishlistTransaction(h)

Spec == Init /\ [][Next]_vars

\* ======================================================================
\* Tags: the get-or-create loops of POST /games/ and PUT /games/:gameId and
\* DELETE /tags/:tagId, over the tables Game, Tag and _GameToTag.
\* ======================================================================
\* Games created in a run of the tag routes.
MaxTagGames == 2
\* Tag rows created in a run (Tag ids are never reused).
MaxTags == 2

TagGameIds == 1 .. MaxTagGames
TagIdRange == 1 .. MaxTags
\* The tag titles request bodies carry, and the tag lists made of them.
Titles == {"Strategy", "Family"}
TagLists == {<<"Strategy">>, <<"Strategy", "Family">>}

\* The ids of the Tag rows.
TagIds == {r.id : r \in tags}

\* prisma.tag.findFirst({where: {title}}): the rows a title matches.
TagsTitled(t) == {r \in tags : r.title = t}

\* The tags a game is associated with.
TagsOf(g) == {l[2] : l \in {x \in gameTags : x[1] = g}}

\* A suspended handler of POST /games/ or PUT /games/:gameId: the tags still
\* to resolve (todo) and the tagIds pushed so far (ids).
TagHandler(p, o, g, own, todo, ids) ==
    [pc |-> p, op |-> o, gameId |-> g, isOwned |-> own, todo |-> todo, ids |-> ids]

\* The catch blocks of the two routes.
TagRouteError(o) ==
    IF o = "postGame" THEN Json(500, "Error creating game")
    ELSE Json(500, "Error updating game")

\* tagIds.push(existingTag.id), then the next tag of the loop or, after the
\* last one, the write of the game.
TagPushed(h, id) ==
    [h EXCEPT !.todo = Tail(h.todo),
              !.ids = h.ids \cup {id},
              !.pc = IF Tail(h.todo) = << >> THEN "game_write" ELSE "tag_find"]

AfterTagFindAlwaysCreate(h) == [h EXCEPT !.pc = "tag_create"]

\* prisma.tag.findFirst for the tag at hand: the row found is pushed, and
\* without a row the handler goes on to create it.
AfterTagFind(h) ==
    IF TagsTitled(Head(h.todo)) = {}
    THEN [h EXCEPT !.pc = "tag_create"]
    ELSE TagPushed(h, (CHOOSE r \in TagsTitled(Head(h.todo)) : TRUE).id)

\* POST handlers that will still create a game.
PostsInFlight ==
    LET hs == {h \in BagToSet(inflight) : "op" \in DOMAIN h /\ h.op = "postGame"}
        sum[S \in SUBSET hs] ==
            IF S = {} THEN 0
            ELSE LET h == CHOOSE x \in S : TRUE
                 IN  CopiesIn(h, inflight) + sum[S \ {h}]
    IN  sum[hs]

\* POST /games/ with tags: the first prisma.tag.findFirst of the loop.
PostGameFindTag(isOwned, tagList) ==
    /\ CanArrive
    /\ nextGameId + PostsInFlight < MaxTagGames
    /\ Suspend(AfterTagFind(TagHandler("tag_find", "postGame", 0, isOwned, tagList, {})))
    /\ UNCHANGED <<store, last>>
    /\ UNCHANGED connection

\* PUT /games/:gameId with tags: the first prisma.tag.findFirst of the loop.
PutGameFindTag(g, isOwned, tagList) ==
    /\ CanArrive
    /\ Suspend(AfterTagFind(TagHandler("tag_find", "putGame", g, isOwned, tagList, {})))
    /\ UNCHANGED <<store, last>>
    /\ UNCHANGED connection

\* A later prisma.tag.findFirst of either loop.
TagFind(h) ==
    /\ BagIn(h, inflight)
    /\ h.pc = "tag_find"
    /\ Resume(h, AfterTagFind(h))
    /\ UNCHANGED <<store, last>>
    /\ UNCHANGED connection

TagCreateAcceptedNoUnique(t) == TRUE

\* Tag_title_key: the database accepts a new Tag row with title t.
TagCreateAccepted(t) == TagsTitled(t) = {}

\* prisma.tag.create of either loop: the new row is pushed, or the unique
\* index refuses it and the error lands in the route's catch block.
TagCreate(h) ==
    /\ BagIn(h, inflight)
    /\ h.pc = "tag_create"
    /\ IF TagCreateAccepted(Head(h.todo))
       THEN /\ nextTagId < MaxTags
            /\ nextTagId' = nextTagId + 1
            /\ tags' = tags \cup {[id |-> nextTagId + 1, title |-> Head(h.todo)]}
            /\ Resume(h, TagPushed(h, nextTagId + 1))
            /\ UNCHANGED last
       ELSE /\ Return(h)
            /\ Respond(h.op, h.gameId, TagRouteError(h.op))
            /\ UNCHANGED <<tags, nextTagId>>
    /\ UNCHANGED <<games, nextGameId, wishlist, gameTags, sessions, files,
                   players, nextPlayerId, sessionPlayers, nextSessionId, nextFileId>>
    /\ UNCHANGED connection

\* prisma.game.create with tags: {connect: tagIds}: the game and its join
\* rows in one write; a tag deleted meanwhile makes it throw.
PostGameCreate(h) ==
    /\ BagIn(h, inflight)
    /\ h.pc = "game_write"
    /\ h.op = "postGame"
    /\ Return(h)
    /\ IF h.ids \subseteq TagIds
       THEN /\ nextGameId' = nextGameId + 1
            /\ games' = [g \in DOMAIN games \cup {nextGameId + 1} |->
                            IF g = nextGameId + 1 THEN [isOwned |-> h.isOwned]
                            ELSE games[g]]
            /\ gameTags' = gameTags \cup {<<nextGameId + 1, i>> : i \in h.ids}
            /\ Respond("postGame", nextGameId + 1, Json(201, ""))
       ELSE /\ UNCHANGED <<games, nextGameId, gameTags>>
            /\ Respond("postGame", 0, TagRouteError("postGame"))
    /\ UNCHANGED <<wishlist, sessions, files, labelTables>>
    /\ UNCHANGED connection

SetTagsConnect(g, ids) == gameTags \cup {<<g, i>> : i \in ids}

\* tags: {set: tagIds}: the game's join rows become exactly these.
SetTags(g, ids) == {l \in gameTags : l[1] # g} \cup {<<g, i>> : i \in ids}

\* prisma.game.update with tags: {set: tagIds}; a missing game or a tag
\* deleted meanwhile makes it throw.
PutGameUpdate(h) ==
    /\ BagIn(h, inflight)
    /\ h.pc = "game_write"
    /\ h.op = "putGame"
    /\ Return(h)
    /\ IF GameExists(h.gameId) /\ h.ids \subseteq TagIds
       THEN /\ games' = [games EXCEPT
                            ![h.gameId] = UpdatedGame(games[h.gameId], h.isOwned)]
            /\ gameTags' = SetTags(h.gameId, h.ids)
            /\ Respond("putGame", h.gameId, Json(200, ""))
       ELSE /\ UNCHANGED <<games, gameTags>>
            /\ Respond("putGame", h.gameId, TagRouteError("putGame"))
    /\ UNCHANGED <<nextGameId, wishlist, sessions, files, labelTables>>
    /\ UNCHANGED connection

TagCascadeNone(t) == gameTags

\* _GameToTag_B_fkey is ON DELETE CASCADE: the join rows left when tag t goes.
TagCascade(t) == {l \in gameTags : l[2] # t}

\* DELETE /tags/:tagId: prisma.tag.delete; the tag's join rows go with it;
\* a missing row makes it throw, answered 500.
DeleteTag(t) ==
    /\ CanArrive
    /\ IF t \in TagIds
       THEN /\ tags' = {r \in tags : r.id # t}
            /\ gameTags' = TagCascade(t)
            /\ Respond("deleteTag", t, Json(204, ""))
       ELSE /\ UNCHANGED <<tags, gameTags>>
            /\ Respond("deleteTag", t, Json(500, "Error deleting a session"))
    /\ UNCHANGED <<games, nextGameId, wishlist, sessions, files, nextTagId,
                   players, nextPlayerId, sessionPlayers, nextSessionId,
                   nextFileId, inflight>>
    /\ UNCHANGED connection

NextTags ==
    \/ \E tl \in TagLists : PostGameFindTag(FALSE, tl)
    \/ \E g \in TagGameIds, tl \in TagLists : PutGameFindTag(g, Absent, tl)
    \/ \E h \in BagToSet(inflight) : TagFind(h)
    \/ \E h \in BagToSet(inflight) : TagCreate(h)
    \/ \E h \in BagToSet(inflight) : PostGameCreate(h)
    \/ \E h \in BagToSet(inflight) : PutGameUpdate(h)
    \/ \E g \in TagGameIds : PutGame(g, Absent)

SpecTags == Init /\ [][NextTags]_vars

\* ======================================================================
\* Players and sessions: createPlayerConnections, the session routes and
\* the player routes, over the tables Session, Player and _PlayerToSession.
\* ======================================================================
\* Player rows created in a run (Player ids are never reused).
MaxPlayers == 2
\* Session rows created in a run (Session ids are never reused).
MaxSessions == 1

PlayerIdRange == 1 .. MaxPlayers
SessionIdRange == 1 .. MaxSessions
\* The player names request bodies carry, and the player lists made of them.
Names == {"Ann", "Bob"}
PlayerLists == {<<"Ann">>, <<"Ann", "Bob">>}
\* The name the body of POST /players and PUT /players/:playerId may carry.
BodyNames == Names \cup {Absent}

\* The ids of the Player rows and of the Session rows.
PlayerIds == {r.id : r \in players}
SessionIds == {r.id : r \in sessions}

\* prisma.player.findFirst({where: {name}}): the rows a name matches.
PlayersNamed(n) == {r \in players : r.name = n}

\* The players a session is associated with.
PlayersOf(s) == {l[1] : l \in {x \in sessionPlayers : x[2] = s}}

\* A suspended handler of a session route: the players still to resolve
\* (todo) and the playerIds pushed so far (ids).
PlayerHandler(p, o, g, sid, todo, ids) ==
    [pc |-> p, op |-> o, gameId |-> g, sessionId |-> sid, todo |-> todo, ids |-> ids]

\* playerIds.push(existingPlayer.id), then the next player of the loop or,
\* after the last one, the write of the session.
PlayerPushed(h, id) ==
    [h EXCEPT !.todo = Tail(h.todo),
              !.ids = h.ids \cup {id},
              !.pc = IF Tail(h.todo) = << >> THEN "session_write" ELSE "player_find"]

\* prisma.player.findFirst for the player at hand: the row found is pushed,
\* and without a row the handler goes on to create it.
AfterPlayerFind(h) ==
    IF PlayersNamed(Head(h.todo)) = {}
    THEN [h EXCEPT !.pc = "player_create"]
    ELSE PlayerPushed(h, (CHOOSE r \in PlayersNamed(Head(h.todo)) : TRUE).id)

\* POST handlers that will still create a session.
SessionPostsInFlight ==
    LET hs == {h \in BagToSet(inflight) : "op" \in DOMAIN h /\ h.op = "postSession"}
        sum[S \in SUBSET hs] ==
            IF S = {} THEN 0
            ELSE LET h == CHOOSE x \in S : TRUE
                 IN  CopiesIn(h, inflight) + sum[S \ {h}]
    IN  sum[hs]

\* POST /games/:gameId/sessions/: prisma.game.findUnique and the early
\* return; createPlayerConnections then has its first findFirst to do, or
\* (no players) nothing, which leaves the session to create.
PostSessionFindGame(g, playerList) ==
    /\ CanArrive
    /\ nextSessionId + SessionPostsInFlight < MaxSessions
    /\ IF ~GameExists(g)
       THEN /\ Respond("postSession", g, Json(404, "Game not found"))
            /\ UNCHANGED inflight
       ELSE /\ Suspend(PlayerHandler(
                    IF playerList = << >> THEN "session_write" ELSE "player_find",
                    "postSession", g, 0, playerList, {}))
            /\ UNCHANGED last
    /\ UNCHANGED store
    /\ UNCHANGED connection

\* PUT /sessions/:sessionId with players: the first prisma.player.findFirst
\* of createPlayerConnections.
PutSessionFindPlayer(sid, playerList) ==
    /\ CanArrive
    /\ playerList # << >>
    /\ Suspend(AfterPlayerFind(
            PlayerHandler("player_find", "putSession", 0, sid, playerList, {})))
    /\ UNCHANGED <<store, last>>
    /\ UNCHANGED connection

\* A prisma.player.findFirst of createPlayerConnections.
PlayerFind(h) ==
    /\ BagIn(h, inflight)
    /\ h.pc = "player_find"
    /\ Resume(h, AfterPlayerFind(h))
    /\ UNCHANGED <<store, last>>
    /\ UNCHANGED connection

\* Player_name_key: the database accepts a new Player row with name n.
PlayerCreateAccepted(n) == PlayersNamed(n) = {}

\* prisma.player.create of createPlayerConnections: the new row is pushed,
\* or the unique index refuses it and the error goes to next().
PlayerCreate(h) ==
    /\ BagIn(h, inflight)
    /\ h.pc = "player_create"
    /\ IF PlayerCreateAccepted(Head(h.todo))
       THEN /\ nextPlayerId < MaxPlayers
            /\ nextPlayerId' = nextPlayerId + 1
            /\ players' = players \cup {[id |-> nextPlayerId + 1, name |-> Head(h.todo)]}
            /\ Resume(h, PlayerPushed(h, nextPlayerId + 1))
            /\ UNCHANGED last
       ELSE /\ Return(h)
            /\ Respond(h.op, IF h.op = "postSession" THEN h.gameId ELSE h.sessionId,
                       errorHandling)
            /\ UNCHANGED <<players, nextPlayerId>>
    /\ UNCHANGED <<games, nextGameId, wishlist, gameTags, sessions, files,
                   tags, nextTagId, sessionPlayers, nextSessionId, nextFileId>>
    /\ UNCHANGED connection

\* prisma.session.create with game: {connect} and players: {connect}: the
\* session and its join rows in one write; a game or a player deleted
\* meanwhile makes it throw.
PostSessionCreate(h) ==
    /\ BagIn(h, inflight)
    /\ h.pc = "session_write"
    /\ h.op = "postSession"
    /\ Return(h)
    /\ IF GameExists(h.gameId) /\ h.ids \subseteq PlayerIds
       THEN /\ nextSessionId' = nextSessionId + 1
            /\ sessions' = sessions \cup {[id |-> nextSessionId + 1, gameId |-> h.gameId]}
            /\ sessionPlayers' = sessionPlayers \cup
                                    {<<i, nextSessionId + 1>> : i \in h.ids}
            /\ Respond("postSession", h.gameId, Json(201, ""))
       ELSE /\ UNCHANGED <<sessions, nextSessionId, sessionPlayers>>
            /\ Respond("postSession", h.gameId, errorHandling)
    /\ UNCHANGED <<games, nextGameId, wishlist, gameTags, files,
                   tags, nextTagId, players, nextPlayerId, nextFileId>>
    /\ UNCHANGED connection

\* players: {connect: playerIds}: these join rows are added to the session's.
ConnectPlayers(sid, ids) == sessionPlayers \cup {<<i, sid>> : i \in ids}

\* prisma.session.update with players: {connect}; a missing session or a
\* player deleted meanwhile makes it throw.
PutSessionUpdate(h) ==
    /\ BagIn(h, inflight)
    /\ h.pc = "session_write"
    /\ h.op = "putSession"
    /\ Return(h)
    /\ IF h.sessionId \in SessionIds /\ h.ids \subseteq PlayerIds
       THEN /\ sessionPlayers' = ConnectPlayers(h.sessionId, h.ids)
            /\ Respond("putSession", h.sessionId, Json(200, ""))
       ELSE /\ UNCHANGED sessionPlayers
            /\ Respond("putSession", h.sessionId, errorHandling)
    /\ UNCHANGED <<games, nextGameId, wishlist, gameTags, sessions, files, tags,
                   nextTagId, players, nextPlayerId, nextSessionId, nextFileId>>
    /\ UNCHANGED connection

\* PUT /sessions/:sessionId without players: createPlayerConnections
\* returns undefined and prisma.session.update leaves the players alone.
PutSession(sid) ==
    /\ CanArrive
    /\ Respond("putSession", sid,
               IF sid \in SessionIds THEN Json(200, "") ELSE errorHandling)
    /\ UNCHANGED <<store, inflight>>
    /\ UNCHANGED connection

DeleteSessionDropsPlayers(sid) ==
    /\ CanArrive
    /\ IF sid \in SessionIds
       THEN /\ sessions' = {r \in sessions : r.id # sid}
            /\ sessionPlayers' = {l \in sessionPlayers : l[2] # sid}
            /\ players' = {r \in players : r.id \notin PlayersOf(sid)}
            /\ Respond("deleteSession", sid, Json(204, ""))
       ELSE /\ UNCHANGED <<sessions, sessionPlayers, players>>
            /\ Respond("deleteSession", sid, errorHandling)
    /\ UNCHANGED <<games, nextGameId, wishlist, gameTags, files, tags, nextTagId,
                   nextPlayerId, nextSessionId, nextFileId, inflight>>
    /\ UNCHANGED connection

\* DELETE /sessions/:sessionId: prisma.session.delete; the session's join
\* rows go with it (_PlayerToSession_B_fkey).
DeleteSession(sid) ==
    /\ CanArrive
    /\ IF sid \in SessionIds
       THEN /\ sessions' = {r \in sessions : r.id # sid}
            /\ sessionPlayers' = {l \in sessionPlayers : l[2] # sid}
            /\ Respond("deleteSession", sid, Json(204, ""))
       ELSE /\ UNCHANGED <<sessions, sessionPlayers>>
            /\ Respond("deleteSession", sid, errorHandling)
    /\ UNCHANGED <<games, nextGameId, wishlist, gameTags, files, tags, nextTagId,
                   players, nextPlayerId, nextSessionId, nextFileId, inflight>>
    /\ UNCHANGED connection

\* POST /players: the name check, then prisma.player.create.
PostPlayer(name) ==
    /\ CanArrive
    /\ IF name = Absent
       THEN /\ Respond("postPlayer", 0, Json(400, "Name is required"))
            /\ UNCHANGED <<players, nextPlayerId>>
       ELSE IF PlayerCreateAccepted(name)
       THEN /\ nextPlayerId < MaxPlayers
            /\ nextPlayerId' = nextPlayerId + 1
            /\ players' = players \cup {[id |-> nextPlayerId + 1, name |-> name]}
            /\ Respond("postPlayer", nextPlayerId + 1, Json(201, ""))
       ELSE /\ Respond("postPlayer", 0, errorHandling)
            /\ UNCHANGED <<players, nextPlayerId>>
    /\ UNCHANGED <<games, nextGameId, wishlist, gameTags, sessions, files, tags,
                   nextTagId, sessionPlayers, nextSessionId, nextFileId, inflight>>
    /\ UNCHANGED connection

\* prisma.player.update: the row exists and no other row has the name.
PlayerUpdateAccepted(p, n) ==
    p \in PlayerIds /\ \A r \in PlayersNamed(n) : r.id = p

\* PUT /players/:playerId: the name check, then prisma.player.update.
PutPlayer(p, name) ==
    /\ CanArrive
    /\ IF name = Absent
       THEN /\ Respond("putPlayer", p, Json(400, "Name is required"))
            /\ UNCHANGED players
       ELSE IF PlayerUpdateAccepted(p, name)
       THEN /\ players' = {r \in players : r.id # p} \cup {[id |-> p, name |-> name]}
            /\ Respond("putPlayer", p, Json(200, ""))
       ELSE /\ Respond("putPlayer", p, errorHandling)
            /\ UNCHANGED players
    /\ UNCHANGED <<games, nextGameId, wishlist, gameTags, sessions, files, tags,
                   nextTagId, nextPlayerId, sessionPlayers, nextSessionId,
                   nextFileId, inflight>>
    /\ UNCHANGED connection

\* DELETE /players/:playerId: prisma.player.delete; the player's join rows
\* go with it (_PlayerToSession_A_fkey).
DeletePlayer(p) ==
    /\ CanArrive
    /\ IF p \in PlayerIds
       THEN /\ players' = {r \in players : r.id # p}
            /\ sessionPlayers' = {l \in sessionPlayers : l[1] # p}
            /\ Respond("deletePlayer", p, Json(204, ""))
       ELSE /\ UNCHANGED <<players, sessionPlayers>>
            /\ Respond("deletePlayer", p, errorHandling)
    /\ UNCHANGED <<games, nextGameId, wishlist, gameTags, sessions, files, tags,
                   nextTagId, nextPlayerId, nextSessionId, nextFileId, inflight>>
    /\ UNCHANGED connection

NextSessions ==
    \/ PostGame(FALSE)
    \/ \E g \in GameIds, pl \in PlayerLists \cup {<< >>} : PostSessionFindGame(g, pl)
    \/ \E sid \in SessionIdRange, pl \in PlayerLists : PutSessionFindPlayer(sid, pl)
    \/ \E h \in BagToSet(inflight) : PlayerFind(h)
    \/ \E h \in BagToSet(inflight) : PlayerCreate(h)
    \/ \E h \in BagToSet(inflight) : PostSessionCreate(h)
    \/ \E h \in BagToSet(inflight) : PutSessionUpdate(h)
    \/ \E sid \in SessionIdRange : PutSession(sid)

SpecSessions == Init /\ [][NextSessions]_vars

\* ======================================================================
\* Both get-or-create loops together, with the routes that write players.
\* ======================================================================
NextResolve ==
    \/ \E tl \in TagLists : PostGameFindTag(FALSE, tl)
    \/ \E g \in TagGameIds, tl \in TagLists : PutGameFindTag(g, Absent, tl)
    \/ \E h \in BagToSet(inflight) : TagFind(h)
    \/ \E h \in BagToSet(inflight) : TagCreate(h)
    \/ \E h \in BagToSet(inflight) : PostGameCreate(h)
    \/ \E h \in BagToSet(inflight) : PutGameUpdate(h)
    \/ \E g \in TagGameIds, pl \in PlayerLists : PostSessionFindGame(g, pl)
    \/ \E sid \in SessionIdRange, pl \in PlayerLists : PutSessionFindPlayer(sid, pl)
    \/ \E h \in BagToSet(inflight) : PlayerFind(h)
    \/ \E h \in BagToSet(inflight) : PlayerCreate(h)
    \/ \E h \in BagToSet(inflight) : PostSessionCreate(h)
    \/ \E h \in BagToSet(inflight) : PutSessionUpdate(h)
    \/ \E n \in BodyNames : PostPlayer(n)
    \/ \E p \in PlayerIdRange, n \in BodyNames : PutPlayer(p, n)

SpecResolve == Init /\ [][NextResolve]_vars

\* ======================================================================
\* Files: POST /games/:gameId/files and DELETE /files/:fileId.
\* ======================================================================
\* File rows created in a run (File ids are never reused).
MaxFiles == 1

FileIdRange == 1 .. MaxFiles
FileIds == {r.id : r \in files}

\* POST handlers that will still create a file.
FilePostsInFlight ==
    LET hs == {h \in BagToSet(inflight) : h.pc = "file_create"}
        sum[S \in SUBSET hs] ==
            IF S = {} THEN 0
            ELSE LET h == CHOOSE x \in S : TRUE
                 IN  CopiesIn(h, inflight) + sum[S \ {h}]
    IN  sum[hs]

\* POST /games/:gameId/files: the body check, prisma.game.findUnique and
\* the early returns.
PostFileFindGame(g, complete) ==
    /\ CanArrive
    /\ nextFileId + FilePostsInFlight < MaxFiles
    /\ IF ~complete
       THEN /\ Respond("postFile", g, Json(400, "Title and link are required"))
            /\ UNCHANGED inflight
       ELSE IF ~GameExists(g)
       THEN /\ Respond("postFile", g, Json(404, "Game not found"))
            /\ UNCHANGED inflight
       ELSE /\ Suspend([pc |-> "file_create", op |-> "postFile", gameId |-> g])
            /\ UNCHANGED last
    /\ UNCHANGED store
    /\ UNCHANGED connection

\* prisma.file.create with game: {connect}: the row, or (the game deleted
\* meanwhile) an error passed to next().
PostFileCreate(h) ==
    /\ BagIn(h, inflight)
    /\ h.pc = "file_create"
    /\ Return(h)
    /\ IF GameExists(h.gameId)
       THEN /\ nextFileId' = nextFileId + 1
            /\ files' = files \cup {[id |-> nextFileId + 1, gameId |-> h.gameId]}
            /\ Respond("postFile", h.gameId, Json(201, ""))
       ELSE /\ UNCHANGED <<files, nextFileId>>
            /\ Respond("postFile", h.gameId, errorHandling)
    /\ UNCHANGED <<games, nextGameId, wishlist, gameTags, sessions, tags, nextTagId,
                   players, nextPlayerId, sessionPlayers, nextSessionId>>
    /\ UNCHANGED connection

\* DELETE /files/:fileId: prisma.file.delete.
DeleteFile(f) ==
    /\ CanArrive
    /\ IF f \in FileIds
       THEN /\ files' = {r \in files : r.id # f}
            /\ Respond("deleteFile", f, Json(204, ""))
       ELSE /\ UNCHANGED files
            /\ Respond("deleteFile", f, errorHandling)
    /\ UNCHANGED <<games, nextGameId, wishlist, gameTags, sessions, labelTables,
                   inflight>>
    /\ UNCHANGED connection

\* ======================================================================
\* Every table together, with the routes that delete rows.
\* ======================================================================
NextAssoc ==
    \/ PostGame(FALSE)
    \/ \E g \in GameIds : PutGameFindTag(g, Absent, <<"Strategy">>)
    \/ \E h \in BagToSet(inflight) : TagCreate(h)
    \/ \E h \in BagToSet(inflight) : PutGameUpdate(h)
    \/ \E g \in GameIds : PutGame(g, Absent)
    \/ \E g \in GameIds : DeleteGame(g)
    \/ \E t \in TagIdRange : DeleteTag(t)
    \/ \E g \in GameIds : AddWishlistFindGame(g, Absent)
    \/ \E h \in BagToSet(inflight) : AddWishlistFindExisting(h)
    \/ \E h \in BagToSet(inflight) : AddWishlistCreate(h)
    \/ \E g \in GameIds : RemoveWishlistFindGame(g)
    \/ \E h \in BagToSet(inflight) : RemoveWishlistTransaction(h)
    \/ \E g \in GameIds : PostSessionFindGame(g, <<"Ann">>)
    \/ \E sid \in SessionIdRange : PutSessionFindPlayer(sid, <<"Bob">>)
    \/ \E h \in BagToSet(inflight) : PlayerFind(h)
    \/ \E h \in BagToSet(inflight) : PlayerCreate(h)
    \/ \E h \in BagToSet(inflight) : PostSessionCreate(h)
    \/ \E h \in BagToSet(inflight) : PutSessionUpdate(h)
    \/ \E sid \in SessionIdRange : PutSession(sid)
    \/ \E sid \in SessionIdRange : DeleteSession(sid)
    \/ \E p \in PlayerIdRange : DeletePlayer(p)
    \/ \E g \in GameIds : PostFileFindGame(g, TRUE)
    \/ \E h \in BagToSet(inflight) : PostFileCreate(h)
    \/ \E f \in FileIdRange : DeleteFile(f)

SpecAssoc == Init /\ [][NextAssoc]_vars

\* ======================================================================
\* Two games with their dependent rows: the routes that create Wishlist,
\* Session and File rows, next to the delete of a game.
\* ======================================================================
NextRefs ==
    \/ PostGameFindTag(FALSE, <<"Strategy">>)
    \/ \E h \in BagToSet(inflight) : TagCreate(h)
    \/ \E h \in BagToSet(inflight) : PostGameCreate(h)
    \/ \E g \in TagGameIds : DeleteGame(g)
    \/ \E g \in TagGameIds : AddWishlistFindGame(g, Absent)
    \/ \E h \in BagToSet(inflight) : AddWishlistFindExisting(h)
    \/ \E h \in BagToSet(inflight) : AddWishlistCreate(h)
    \/ \E g \in TagGameIds : RemoveWishlistFindGame(g)
    \/ \E h \in BagToSet(inflight) : RemoveWishlistTransaction(h)
    \/ \E g \in TagGameIds : PostSessionFindGame(g, <<"Ann">>)
    \/ \E h \in BagToSet(inflight) : PlayerFind(h)
    \/ \E h \in BagToSet(inflight) : PlayerCreate(h)
    \/ \E h \in BagToSet(inflight) : PostSessionCreate(h)
    \/ \E g \in TagGameIds : PostFileFindGame(g, TRUE)
    \/ \E h \in BagToSet(inflight) : PostFileCreate(h)

SpecRefs == Init /\ [][NextRefs]_vars

\* ======================================================================
\* The database connection: src/db/index.ts with its monitor, the
\* middleware ensureDatabaseConnection and the shutdown handlers.
\* prisma.$connect() and SELECT 1 succeed exactly while the database is
\* reachable; a health check is one step, taken when its query settles.
\* ======================================================================
\* databaseConfig.maxRetries: parseInt(process.env.DB_MAX_RETRIES || '5').
maxRetries == 5
\* Connection attempts followed within one call of connectWithRetry.
MaxAttempts == 6
\* Queries the monitor counts before it has to be reset.
MaxQueries == 3

\* process.exit has not been called.
Running == process.pc # "exited"

\* process.exit(code): the event loop ends with everything it held.
Exit(code) ==
    /\ process' = [pc |-> "exited", exitCode |-> code]
    /\ inflight' = EmptyBag

\* A suspended call of connectWithRetry: at the await of prisma.$connect()
\* (pc "connect") or of the backoff timer (pc "backoff"), in its n-th attempt.
ConnectHandler(p, caller, n) ==
    [pc |-> p, op |-> "connectWithRetry", caller |-> caller, attempts |-> n]

\* The calls of connectWithRetry under way.
Connecting == {h \in BagToSet(inflight) : h.op = "connectWithRetry"}

\* connectWithRetry returns normally after n attempts; initializeConnection
\* then starts the periodic health check.
ConnectReturned(caller, n, ok) ==
    /\ lastConnect' = [outcome |-> "returned", attempts |-> n, succeeded |-> ok]
    /\ process' = IF caller = "initializeConnection"
                  THEN [process EXCEPT !.pc = "serving"] ELSE process

\* while (connectionRetries < maxRetries) on entry: the first
\* prisma.$connect(), or no iteration at all and a normal return.
ConnectEntered(caller) ==
    /\ Connecting = {}
    /\ IF connectionRetries < maxRetries
       THEN /\ Suspend(ConnectHandler("connect", caller, 1))
            /\ process' = IF caller = "initializeConnection"
                          THEN [process EXCEPT !.pc = "starting"] ELSE process
            /\ UNCHANGED lastConnect
       ELSE /\ ConnectReturned(caller, 0, FALSE)
            /\ UNCHANGED inflight
    /\ UNCHANGED <<isConnected, connectionRetries, reachable, metrics, store, last>>

\* initializeConnection(), run when the module is loaded.
InitializeConnection ==
    /\ process.pc = "loading"
    /\ ConnectEntered("initializeConnection")

\* A later call of the exported connectWithRetry by another module.
ConnectWithRetry ==
    /\ process.pc = "serving"
    /\ ConnectEntered("caller")

\* await prisma.$connect() settles: success returns; a failure counts,
\* and is rethrown at maxRetries (initializeConnection then exits with 1) or
\* followed by the backoff wait.
ConnectSettles(h) ==
    /\ Running
    /\ BagIn(h, inflight)
    /\ h.op = "connectWithRetry" /\ h.pc = "connect"
    /\ IF reachable
       THEN /\ isConnected' = TRUE
            /\ connectionRetries' = 0
            /\ Return(h)
            /\ ConnectReturned(h.caller, h.attempts, TRUE)
       ELSE /\ connectionRetries' = connectionRetries + 1
            /\ UNCHANGED isConnected
            /\ IF connectionRetries + 1 >= maxRetries
               THEN /\ lastConnect' = [outcome |-> "thrown", attempts |-> h.attempts,
                                       succeeded |-> FALSE]
                    /\ IF h.caller = "initializeConnection"
                       THEN Exit(1)
                       ELSE Return(h) /\ UNCHANGED process
               ELSE /\ Resume(h, [h EXCEPT !.pc = "backoff"])
                    /\ UNCHANGED <<process, lastConnect>>
    /\ UNCHANGED <<reachable, metrics, store, last>>

\* The backoff timer fires: the loop test again, then the next
\* prisma.$connect() or the end of the loop.
BackoffElapsed(h) ==
    /\ Running
    /\ BagIn(h, inflight)
    /\ h.op = "connectWithRetry" /\ h.pc = "backoff"
    /\ IF connectionRetries < maxRetries
       THEN /\ h.attempts < MaxAttempts
            /\ Resume(h, [h EXCEPT !.pc = "connect", !.attempts = @ + 1])
            /\ UNCHANGED <<process, lastConnect>>
       ELSE /\ Return(h)
            /\ ConnectReturned(h.caller, h.attempts, FALSE)
    /\ UNCHANGED <<isConnected, connectionRetries, reachable, metrics, store, last>>

RecordQueryNoTotal(m, success) ==
    [m EXCEPT !.successfulQueries = IF success THEN @ + 1 ELSE @,
              !.failedQueries = IF success THEN @ ELSE @ + 1]

\* monitor.recordQuery(success, executionTime); the times are left out.
RecordQuery(m, success) ==
    [m EXCEPT !.totalQueries = @ + 1,
              !.successfulQueries = IF success THEN @ + 1 ELSE @,
              !.failedQueries = IF success THEN @ ELSE @ + 1]

\* getMetrics().successRate, as a whole percentage.
successRate(m) ==
    IF m.totalQueries > 0 THEN (m.successfulQueries * 100) \div m.totalQueries ELSE 0

HealthCheckedKeepsStatus(ok) ==
    /\ UNCHANGED isConnected
    /\ connectionRetries' = IF ok THEN 0 ELSE connectionRetries
    /\ metrics' = RecordQuery(metrics, ok)

\* checkDatabaseHealth once SELECT 1 has settled: the status, the shared
\* retry counter (reset on success) and the monitor.
HealthChecked(ok) ==
    /\ isConnected' = ok
    /\ connectionRetries' = IF ok THEN 0 ELSE connectionRetries
    /\ metrics' = RecordQuery(metrics, ok)

\* The monitor's counters have room for one more query.
CanRecord == metrics.totalQueries < MaxQueries

\* checkDatabaseHealth called by the setInterval callback of
\* initializeConnection or by GET /health of the app.
CheckDatabaseHealth(caller) ==
    /\ Running
    /\ IF caller = "setInterval" THEN process.pc = "serving"
       ELSE process.pc # "loading"
    /\ CanRecord
    /\ HealthChecked(reachable)
    /\ IF caller = "setInterval" THEN UNCHANGED last
       ELSE Respond("health", 0, Json(IF reachable THEN 200 ELSE 503, ""))
    /\ UNCHANGED <<reachable, process, lastConnect, store, inflight>>

\* monitor.recordQuery called on the monitor itself.
MonitorRecordQuery(success) ==
    /\ Running
    /\ CanRecord
    /\ metrics' = RecordQuery(metrics, success)
    /\ UNCHANGED <<isConnected, connectionRetries, reachable, process, lastConnect,
                   store, inflight, last>>

\* resetDatabaseMetrics(): monitor.resetMetrics().
ResetMetrics ==
    /\ Running
    /\ metrics' = [totalQueries |-> 0, successfulQueries |-> 0, failedQueries |-> 0]
    /\ UNCHANGED <<isConnected, connectionRetries, reachable, process, lastConnect,
                   store, inflight, last>>

\* The database goes down or comes back.
DatabaseFlips ==
    /\ Running
    /\ reachable' = ~reachable
    /\ UNCHANGED <<isConnected, connectionRetries, process, metrics, lastConnect,
                   store, inflight, last>>

\* ------------------------------------------- ensureDatabaseConnection
\* next(): the request is passed on to the route.
NextCalled == [status |-> 0, error |-> "next()"]

EnsureOutcomeAlwaysNext(isHealthy) == NextCalled

\* if (!isHealthy) res.status(503)... return; and otherwise next().
EnsureOutcome(isHealthy) ==
    IF isHealthy THEN NextCalled ELSE Json(503, "Database connection unavailable")

\* The middleware takes a request: with the status true it calls next(),
\* otherwise it awaits checkDatabaseHealth().
EnsureDatabaseConnection ==
    /\ Running
    /\ process.pc # "loading"
    /\ CanArrive
    /\ IF isConnected
       THEN /\ Respond("ensureDatabaseConnection", 0, NextCalled)
            /\ UNCHANGED inflight
       ELSE /\ Suspend([pc |-> "health", op |-> "ensureDatabaseConnection"])
            /\ UNCHANGED last
    /\ UNCHANGED <<store, connection>>

\* The health check of the middleware settles, and the middleware answers
\* 503 or calls next().
EnsureHealthChecked(h) ==
    /\ Running
    /\ BagIn(h, inflight)
    /\ h.op = "ensureDatabaseConnection"
    /\ CanRecord
    /\ HealthChecked(reachable)
    /\ Return(h)
    /\ Respond("ensureDatabaseConnection", 0, EnsureOutcome(reachable))
    /\ UNCHANGED <<reachable, process, lastConnect, store>>

\* ------------------------------------------------------------ shutdown
Signals == {"SIGINT", "SIGTERM", "uncaughtException", "unhandledRejection"}

\* The handler of a signal or error event at its await of
\* disconnectDatabase(), with the code it will exit with.
ShutdownHandler(sig) ==
    [pc |-> "disconnect", op |-> sig,
     code |-> IF sig \in {"SIGINT", "SIGTERM"} THEN 0 ELSE 1]

\* The shutdown handlers under way.
ShuttingDown == {h \in BagToSet(inflight) : h.op \in Signals}

\* process.on(sig, ...): the event arrives and its handler calls
\* disconnectDatabase().
Signal(sig) ==
    /\ Running
    /\ process.pc # "loading"
    /\ CanArrive
    /\ Suspend(ShutdownHandler(sig))
    /\ UNCHANGED <<store, connection, last>>

\* prisma.$disconnect() settles: on success the status is cleared and the
\* handler exits; on failure disconnectDatabase rethrows, the handler's
\* promise is rejected and nothing handles the rejection.
DisconnectSettles(h, ok) ==
    /\ Running
    /\ BagIn(h, inflight)
    /\ h.op \in Signals /\ h.pc = "disconnect"
    /\ IF ok
       THEN /\ isConnected' = FALSE
            /\ Exit(h.code)
       ELSE /\ Resume(h, [pc |-> "rejected", op |-> "unhandledRejection", code |-> 1])
            /\ UNCHANGED <<isConnected, process>>
    /\ UNCHANGED <<connectionRetries, reachable, metrics, lastConnect, store, last>>

\* Node emits 'unhandledRejection' for the rejected handler, and the handler
\* of that event calls disconnectDatabase() in its turn.
UnhandledRejection(h) ==
    /\ Running
    /\ BagIn(h, inflight)
    /\ h.op \in Signals /\ h.pc = "rejected"
    /\ Resume(h, ShutdownHandler("unhandledRejection"))
    /\ UNCHANGED <<store, connection, last>>

\* connectWithRetry with its callers, the health checks and the monitor.
NextConnect ==
    \/ InitializeConnection
    \/ ConnectWithRetry
    \/ \E h \in BagToSet(inflight) : ConnectSettles(h)
    \/ \E h \in BagToSet(inflight) : BackoffElapsed(h)
    \/ \E c \in {"setInterval", "health"} : CheckDatabaseHealth(c)
    \/ \E ok \in BOOLEAN : MonitorRecordQuery(ok)
    \/ ResetMetrics
    \/ DatabaseFlips

SpecConnect == Init /\ [][NextConnect]_vars

\* The running server: start-up, the periodic health check, the middleware
\* and the shutdown handlers.
NextServe ==
    \/ InitializeConnection
    \/ \E h \in BagToSet(inflight) : ConnectSettles(h)
    \/ \E h \in BagToSet(inflight) : BackoffElapsed(h)
    \/ CheckDatabaseHealth("setInterval")
    \/ ResetMetrics
    \/ EnsureDatabaseConnection
    \/ \E h \in BagToSet(inflight) : EnsureHealthChecked(h)
    \/ \E sig \in Signals : Signal(sig)
    \/ \E h \in BagToSet(inflight), ok \in BOOLEAN : DisconnectSettles(h, ok)
    \/ \E h \in BagToSet(inflight) : UnhandledRejection(h)
    \/ DatabaseFlips

\* The timer of setInterval keeps firing, a pending prisma.$disconnect()
\* settles, and Node delivers a pending 'unhandledRejection'.
SpecServe ==
    /\ Init
    /\ [][NextServe]_vars
    /\ WF_vars(CheckDatabaseHealth("setInterval"))
    /\ WF_vars(\E h \in BagToSet(inflight), ok \in BOOLEAN : DisconnectSettles(h, ok))
    /\ WF_vars(\E h \in BagToSet(inflight) : UnhandledRejection(h))

\* ------------------------------------------------- steps, as seen from outside
\* This step takes a request of route o for game g and answers it at once.
Answered(o, g) == inflight' = inflight /\ last'.op = o /\ last'.gameId = g

\* This step takes a request whose handler suspends as h.
Suspended(h) == inflight' = inflight (+) SetToBag({h})

\* This step resumes the suspended handler h (which returns or suspends anew).
Resumed(h) == BagIn(h, inflight) /\ CopiesIn(h, inflight') < CopiesIn(h, inflight)

\* This step resumes the suspended handler h, which answers and returns.
Returned(h) == BagIn(h, inflight) /\ inflight' = inflight (-) SetToBag({h})

\* The same step leaves every table as it is.
StoreUnchanged == store' = store

\* ----------------------------------------------------------------- claims
\* C1: removeFromWishlist deletes the Wishlist row and sets isOwned = true in
\* one step: every step that removes a game's Wishlist row leaves the game
\* owned, and the step of the transaction either does both writes (and
\* nothing else) or, when it fails, changes no table at all.
C1_RemoveIsAtomic ==
    [][\A g \in GameIds :
        /\ (HasWishlist(g) /\ ~HasWishlist(g)') =>
               (g \in DOMAIN games' /\ games'[g].isOwned)
        /\ \A h \in BagToSet(inflight) :
               (h.pc = "rw_tx" /\ h.gameId = g /\ Resumed(h)) =>
                   \/ /\ HasWishlist(g) /\ ~HasWishlist(g)'
                      /\ g \in DOMAIN games' /\ games'[g].isOwned
                      /\ \A k \in GameIds \ {g} :
                            /\ WishlistRows(k)' = WishlistRows(k)
                            /\ (k \in DOMAIN games) = (k \in DOMAIN games')
                            /\ k \in DOMAIN games => games'[k] = games[k]
                      /\ UNCHANGED <<nextGameId, gameTags, sessions, files, labelTables>>
                      /\ last'.resp.status = 200
                   \/ /\ StoreUnchanged
                      /\ last'.resp = errorHandling
      ]_vars

\* C1 witness: a removeFromWishlist has just committed: the row is gone and
\* the game is owned.
C1_Witness ==
    /\ last.op = "removeWishlist" /\ last.resp.status = 200
    /\ GameExists(last.gameId)
    /\ ~HasWishlist(last.gameId) /\ games[last.gameId].isOwned

\* C2: no game is ever both owned and wishlisted.
C2_NeverOwnedAndWishlisted ==
    \A g \in DOMAIN games : HasWishlist(g) => ~games[g].isOwned

\* C3: addToWishlist on a game that is owned when the handler looks it up is
\* answered 400 "Cannot add owned game to wishlist" at once, goes no further
\* and changes no table.
C3_AddOwnedRejected ==
    [][\A g \in GameIds :
        (GameExists(g) /\ games[g].isOwned) =>
            /\ \A h \in BagToSet(inflight') :
                   (h.pc = "aw_check" /\ h.gameId = g) => ~Suspended(h)
            /\ Answered("addWishlist", g) =>
                   /\ last'.resp = Json(400, "Cannot add owned game to wishlist")
                   /\ StoreUnchanged
      ]_vars

\* C3 witness: an addToWishlist on an owned game was just refused.
C3_Witness ==
    /\ last.op = "addWishlist"
    /\ last.resp = Json(400, "Cannot add owned game to wishlist")
    /\ GameExists(last.gameId) /\ games[last.gameId].isOwned
    /\ ~HasWishlist(last.gameId)

\* C4: on an unowned game without a row the create step of addToWishlist
\* stores one row with the call's reason and answers 201; a call that then
\* reaches the "already in wishlist" check with the row in place is answered
\* 400 "Game is already in wishlist", changes no table and leaves exactly the
\* one row, with the reason it had.
C4_SecondAddConflicts ==
    [][\A h \in BagToSet(inflight) :
        /\ (h.pc = "aw_create" /\ Resumed(h)
              /\ GameExists(h.gameId) /\ ~HasWishlist(h.gameId)) =>
               /\ wishlist' = wishlist (+)
                      SetToBag({[gameId |-> h.gameId, reason |-> h.reason]})
               /\ last'.resp.status = 201
        /\ (h.pc = "aw_check" /\ Resumed(h) /\ HasWishlist(h.gameId)) =>
               /\ Returned(h)
               /\ last' = [op |-> "addWishlist", gameId |-> h.gameId,
                           resp |-> Json(400, "Game is already in wishlist")]
               /\ StoreUnchanged
               /\ WishlistCount(h.gameId)' = 1
               /\ WishlistRows(h.gameId)' = WishlistRows(h.gameId)
      ]_vars

\* C4 witness: a second addToWishlist was just answered "already in wishlist"
\* while the first call's row, with its non-default reason, is the only one.
C4_Witness ==
    /\ last.op = "addWishlist"
    /\ last.resp = Json(400, "Game is already in wishlist")
    /\ inflight = EmptyBag
    /\ WishlistCount(last.gameId) = 1
    /\ \A w \in WishlistRows(last.gameId) : w.reason = "heard good things"
    /\ ~games[last.gameId].isOwned

\* C5: whenever addToWishlist(g) succeeds, right after the row is created g
\* is not owned and has exactly one Wishlist row.
C5_AddSucceedsOnUnowned ==
    [][\A h \in BagToSet(inflight) :
        (h.pc = "aw_create" /\ Returned(h) /\ last'.resp.status = 201) =>
            /\ h.gameId \in DOMAIN games'
            /\ ~games'[h.gameId].isOwned
            /\ WishlistCount(h.gameId)' = 1
      ]_vars

\* C6: on a game that has a Wishlist row the transaction of
\* removeFromWishlist succeeds, and after it no row exists for the game, the
\* game is owned, and a fetch of the game reports isOwned = true and no
\* wishlist entry.
C6_RemoveMakesOwned ==
    [][\A h \in BagToSet(inflight) :
        (h.pc = "rw_tx" /\ Resumed(h)) =>
            /\ Returned(h)
            /\ (HasWishlist(h.gameId) /\ GameExists(h.gameId)) =>
                   last'.resp.status = 200
            /\ last'.resp.status = 200 =>
                   /\ ~HasWishlist(h.gameId)'
                   /\ WishlistCount(h.gameId)' = 0
                   /\ h.gameId \in DOMAIN games' /\ games'[h.gameId].isOwned
                   /\ FetchGame(h.gameId)' = {[isOwned |-> TRUE, wishlist |-> {}]}
      ]_vars

\* C6 witness: the game was created unowned, wishlisted and then removed from
\* the wishlist; a fetch now reports it owned and not wishlisted.
C6_Witness ==
    /\ last.op = "removeWishlist" /\ last.resp.status = 200
    /\ FetchGame(last.gameId) = {[isOwned |-> TRUE, wishlist |-> {}]}

\* C7: removeFromWishlist on an existing game that has no Wishlist row when
\* the request is processed - at the lookup or, for an overlapping second
\* request, at the transaction - is answered 400 "Game is not in wishlist" and
\* changes no table.
C7_RemoveWithoutRowIs400 ==
    [][\A g \in GameIds :
        (GameExists(g) /\ ~HasWishlist(g)) =>
            /\ Answered("removeWishlist", g) =>
                   /\ last'.resp = Json(400, "Game is not in wishlist")
                   /\ StoreUnchanged
            /\ \A h \in BagToSet(inflight) :
                   (h.pc = "rw_tx" /\ h.gameId = g /\ Resumed(h)) =>
                       /\ last'.resp = Json(400, "Game is not in wishlist")
                       /\ StoreUnchanged
      ]_vars

\* C8: addToWishlist and removeFromWishlist on a game id that does not exist
\* when the handler looks it up are answered 404 "Game not found" at once, go
\* no further and change no table.
C8_MissingGameIs404 ==
    [][\A g \in GameIds :
        ~GameExists(g) =>
            /\ \A h \in BagToSet(inflight') : h.gameId = g => ~Suspended(h)
            /\ (Answered("addWishlist", g) \/ Answered("removeWishlist", g)) =>
                   /\ last'.resp = Json(404, "Game not found")
                   /\ StoreUnchanged
      ]_vars

\* C8 witness: an addToWishlist on a missing game id was just answered 404.
C8_Witness ==
    /\ last.op = "addWishlist"
    /\ last.resp = Json(404, "Game not found")
    /\ ~GameExists(last.gameId)
    /\ wishlist = EmptyBag

\* C9: there is at most one Wishlist row per Game.
C9_AtMostOneRow == \A g \in GameIds : WishlistCount(g) <= 1

\* C9 witness: of two addToWishlist calls that both passed the existence
\* check, one created the row and the other's create was just refused.
C9_Witness ==
    /\ last.op = "addWishlist" /\ last.resp = errorHandling
    /\ GameExists(last.gameId)
    /\ WishlistCount(last.gameId) = 1

\* C10: an addToWishlist whose create hits the uniqueness constraint is
\* answered 400 or 409, never 500.
C10_UniqueViolationIsConflict ==
    [][\A h \in BagToSet(inflight) :
        (h.pc = "aw_create" /\ Returned(h) /\ WishlistUniqueViolation(h.gameId)) =>
            last'.resp.status \in {400, 409}
      ]_vars

\* ------------------------------------------ get-or-create, as seen from outside
\* The Tag and Player rows as <<id, label>> pairs.
TagPairs == {<<r.id, r.title>> : r \in tags}
PlayerPairs == {<<r.id, r.name>> : r \in players}

\* The rows of a table of pairs that carry label t.
Labelled(pairs, t) == {q \in pairs : q[2] = t}

\* This step turns handler h into handler k.
Became(h, k) == h # k /\ inflight' = (inflight (-) SetToBag({h})) (+) SetToBag({k})

\* This step takes a request whose handler suspends as k.
Arrived(k) == inflight' = inflight (+) SetToBag({k})

\* A loop that held the labels todo and the ids `ids` resolved the first
\* label: afterwards exactly one row carries it, the row's id is what the
\* loop (now k) pushed, a row that was there is the one found and nothing is
\* created, and a row that was missing is the only row created.
Resolved(before, after, todo, ids, k) ==
    \E q \in after :
        /\ Labelled(after, Head(todo)) = {q}
        /\ k.ids = ids \cup {q[1]}
        /\ k.todo = Tail(todo)
        /\ IF Labelled(before, Head(todo)) # {}
           THEN after = before
           ELSE after = before \cup {q}

\* The first findFirst of a loop over one of `lists`, done on arrival.
ResolvedOnArrival(before, after, lists, k) ==
    \E l \in lists :
        IF Labelled(before, Head(l)) # {}
        THEN Resolved(before, after, l, {}, k)
        ELSE k.todo = l /\ k.ids = {} /\ after = before

\* C11: the get-or-create resolution is idempotent. Every step of a loop
\* that resolves a label (a tag title in POST /games/ and PUT /games/:gameId,
\* a player name in createPlayerConnections) ends with exactly one row
\* carrying the label and with that row's id pushed; when the row was there
\* before the step, it is the row found and no row is created, so that
\* resolving the label again yields the same id and still one row.
C11_ResolveIsIdempotent ==
    [][\A k \in BagToSet(inflight') :
        /\ (Arrived(k) /\ k.op \in {"postGame", "putGame"}) =>
               ResolvedOnArrival(TagPairs, TagPairs', TagLists, k)
        /\ (Arrived(k) /\ k.op = "putSession") =>
               ResolvedOnArrival(PlayerPairs, PlayerPairs', PlayerLists, k)
        /\ \A h \in BagToSet(inflight) :
               Became(h, k) =>
                   /\ h.pc = "tag_find" =>
                          IF TagsTitled(Head(h.todo)) # {}
                          THEN Resolved(TagPairs, TagPairs', h.todo, h.ids, k)
                          ELSE k.ids = h.ids /\ k.todo = h.todo /\ tags' = tags
                   /\ h.pc = "tag_create" =>
                          Resolved(TagPairs, TagPairs', h.todo, h.ids, k)
                   /\ h.pc = "player_find" =>
                          IF PlayersNamed(Head(h.todo)) # {}
                          THEN Resolved(PlayerPairs, PlayerPairs', h.todo, h.ids, k)
                          ELSE k.ids = h.ids /\ k.todo = h.todo /\ players' = players
                   /\ h.pc = "player_create" =>
                          Resolved(PlayerPairs, PlayerPairs', h.todo, h.ids, k)
      ]_vars

\* Two games share the one Tag row ever created, and a session updated with
\* players holds the one Player row ever created: each label was resolved
\* once without its row and again with it.
C11_Witness ==
    /\ nextTagId = 1
    /\ \E g1 \in TagGameIds, g2 \in TagGameIds :
          g1 # g2 /\ TagsOf(g1) = TagIds /\ TagsOf(g2) = TagIds /\ TagIds # {}
    /\ nextPlayerId = 1
    /\ \E sid \in SessionIds : PlayersOf(sid) = PlayerIds /\ PlayerIds # {}
    /\ last.op = "putSession" /\ last.resp.status = 200

\* C12: in every reachable state no two Tag rows have the same title and no
\* two Player rows have the same name, whatever races the get-or-create
\* loops run and whatever POST /players and PUT /players/:playerId write.
C12_LabelsUnique ==
    /\ \A r1 \in tags, r2 \in tags : r1.title = r2.title => r1 = r2
    /\ \A r1 \in players, r2 \in players : r1.name = r2.name => r1 = r2

\* A POST /games/ lost the race for a new title (its create was refused),
\* and both names have their Player row.
C12_Witness ==
    /\ last.op = "postGame" /\ last.resp.status = 500
    /\ tags # {}
    /\ Cardinality(players) = 2

\* C13: a request that loses the create race for a new label is not failed.
\* When a loop's create finds that the label's row was created meanwhile,
\* the loop goes on with that row's id pushed (it re-reads the row) instead
\* of answering an error.
C13_LoserRereads ==
    [][\A h \in BagToSet(inflight) :
        /\ (h.pc = "tag_create" /\ Resumed(h) /\ TagsTitled(Head(h.todo)) # {}) =>
               \E k \in BagToSet(inflight') :
                   Became(h, k) /\ Resolved(TagPairs, TagPairs', h.todo, h.ids, k)
        /\ (h.pc = "player_create" /\ Resumed(h) /\ PlayersNamed(Head(h.todo)) # {}) =>
               \E k \in BagToSet(inflight') :
                   Became(h, k) /\ Resolved(PlayerPairs, PlayerPairs', h.todo, h.ids, k)
      ]_vars

\* C14: a session update with a non-empty player list replaces the player
\* associations. After the prisma.session.update of a PUT
\* /sessions/:sessionId that resolved players succeeds, the session's
\* players are exactly the players resolved from the request's list.
C14_UpdateReplacesPlayers ==
    [][\A h \in BagToSet(inflight) :
        (/\ h.pc = "session_write" /\ h.op = "putSession"
         /\ Returned(h) /\ last'.resp.status = 200) =>
            PlayersOf(h.sessionId)' = h.ids
      ]_vars

\* C15: a session update with an empty player list clears the player
\* associations. After a PUT /sessions/:sessionId without players succeeds,
\* the session has no player.
C15_EmptyListClearsPlayers ==
    [][\A sid \in SessionIdRange :
        (Answered("putSession", sid) /\ last'.resp.status = 200) =>
            PlayersOf(sid)' = {}
      ]_vars

\* C16: a game update without tags removes every tag association of that
\* game and nothing else. A PUT /games/:gameId with an empty or absent tag
\* list that succeeds leaves the game without tags, leaves every other
\* game's tags as they were and leaves the Tag rows as they were; one that
\* fails changes no association and no Tag row.
C16_EmptyListClearsOnlyThisGame ==
    [][\A g \in TagGameIds :
        Answered("putGame", g) =>
            /\ tags' = tags
            /\ \A k \in TagGameIds \ {g} : TagsOf(k)' = TagsOf(k)
            /\ IF last'.resp.status = 200
               THEN TagsOf(g)' = {}
               ELSE TagsOf(g)' = TagsOf(g)
      ]_vars

\* A game created with tags has none after its update, while the other
\* game keeps its tags and both Tag rows are there.
C16_Witness ==
    \E g \in TagGameIds, k \in TagGameIds :
        /\ g # k /\ GameExists(g) /\ GameExists(k)
        /\ last.op = "putGame" /\ last.gameId = g /\ last.resp.status = 200
        /\ TagsOf(g) = {}
        /\ TagsOf(k) # {}
        /\ Cardinality(tags) = 2

\* C17: a game update with a non-empty tag list replaces the game's tag
\* associations. After the prisma.game.update of a PUT /games/:gameId that
\* resolved tags succeeds, the game's tags are exactly the (existing) tags
\* the loop resolved, and every other game's tags are as they were; when
\* it fails no association changes.
C17_UpdateReplacesTags ==
    [][\A h \in BagToSet(inflight) :
        (h.pc = "game_write" /\ h.op = "putGame" /\ Returned(h)) =>
            /\ tags' = tags
            /\ \A k \in TagGameIds \ {h.gameId} : TagsOf(k)' = TagsOf(k)
            /\ IF last'.resp.status = 200
               THEN /\ TagsOf(h.gameId)' = h.ids
                    /\ h.ids # {}
                    /\ h.ids \subseteq TagIds'
               ELSE TagsOf(h.gameId)' = TagsOf(h.gameId)
      ]_vars

\* The only game ever created is left, after an update, with the tag
\* "Strategy" alone while the tag "Family" exists too.
C17_Witness ==
    /\ nextGameId = 1 /\ GameExists(1)
    /\ inflight = EmptyBag
    /\ last.op = "putGame" /\ last.gameId = 1 /\ last.resp.status = 200
    /\ Cardinality(tags) = 2
    /\ \E r \in tags : r.title = "Strategy" /\ TagsOf(1) = {r.id}

\* The rows that reference game g: its Session, Wishlist and File rows.
Dependents(g) ==
    <<{r \in sessions : r.gameId = g},
      {w \in BagToSet(wishlist) : w.gameId = g},
      {f \in files : f.gameId = g}>>

HasDependents(g) == Dependents(g) # <<{}, {}, {}>>

\* C18: deleting a Game that still has a Session, Wishlist or File row
\* fails and cascades nothing. A DELETE /games/:gameId of such a game is
\* answered with an error and leaves every table (the game, its dependent
\* rows, its tag associations) as it was; and whenever a Game row
\* disappears, the game had no such row and the step is a successful
\* DELETE /games/:gameId that leaves all dependent rows of other games.
C18_DeleteWithDependentsFails ==
    [][\A g \in GameIds :
        /\ (Answered("deleteGame", g) /\ GameExists(g) /\ HasDependents(g)) =>
               /\ StoreUnchanged
               /\ last'.resp.status = 500
        /\ (GameExists(g) /\ ~GameExists(g)') =>
               /\ ~HasDependents(g)
               /\ Answered("deleteGame", g) /\ last'.resp.status = 204
               /\ UNCHANGED <<sessions, wishlist, files>>
      ]_vars

\* A DELETE /games/:gameId has just failed on a game that has a session, a
\* wishlist row, a file and a tag.
C18_Witness ==
    \E g \in GameIds :
        /\ last.op = "deleteGame" /\ last.gameId = g /\ last.resp.status = 500
        /\ GameExists(g)
        /\ \A i \in 1 .. 3 : Dependents(g)[i] # {}
        /\ TagsOf(g) # {}

\* Every join row references rows that exist.
JoinRowsValid ==
    /\ \A l \in gameTags : GameExists(l[1]) /\ l[2] \in TagIds
    /\ \A l \in sessionPlayers : l[1] \in PlayerIds /\ l[2] \in SessionIds

\* C19: many-to-many join rows never dangle. After every step each game-tag
\* link references an existing Game and an existing Tag and each
\* player-session link an existing Player and an existing Session; and a
\* step that deletes a Game, Tag, Player or Session removes exactly the
\* join rows that reference it and leaves the rows of the other side.
C19_JoinRowsNeverDangle ==
    [][/\ JoinRowsValid'
       /\ \A g \in DOMAIN games \ DOMAIN games' :
              gameTags' = {l \in gameTags : l[1] # g} /\ tags' = tags
       /\ \A t \in TagIds \ TagIds' :
              gameTags' = {l \in gameTags : l[2] # t} /\ games' = games
       /\ \A p \in PlayerIds \ PlayerIds' :
              sessionPlayers' = {l \in sessionPlayers : l[1] # p} /\ sessions' = sessions
       /\ \A sid \in SessionIds \ SessionIds' :
              sessionPlayers' = {l \in sessionPlayers : l[2] # sid} /\ players' = players
      ]_vars

\* A DELETE /players/:playerId has just removed one of the two players
\* ever created, the session still holds the other one, and the tag the
\* only game ever had is deleted with the game still there.
C19_Witness ==
    /\ last.op = "deletePlayer" /\ last.resp.status = 204
    /\ nextPlayerId = 2 /\ Cardinality(players) = 1
    /\ \E sid \in SessionIds : PlayersOf(sid) = PlayerIds
    /\ nextTagId = 1 /\ tags = {} /\ gameTags = {}
    /\ games # << >>

\* C20: a Tag or Player row is removed only by its own delete route. Every
\* step that makes a Tag row disappear is a successful DELETE /tags/:tagId of
\* that tag, every step that makes a Player row disappear is a successful
\* DELETE /players/:playerId of that player; no game, session, file or
\* wishlist step removes one, whatever associations it removes.
C20_LabelsRemovedOnlyByDelete ==
    [][/\ \A t \in TagIds \ TagIds' :
              Answered("deleteTag", t) /\ last'.resp.status = 204
       /\ \A p \in PlayerIds \ PlayerIds' :
              Answered("deletePlayer", p) /\ last'.resp.status = 204
      ]_vars

\* The game and the session that held the only tag and the only player
\* are deleted, and the Tag row and the Player row are still there.
C20_Witness ==
    /\ last.op = "deleteGame" /\ last.resp.status = 204
    /\ nextGameId = 1 /\ games = << >>
    /\ nextSessionId = 1 /\ sessions = {}
    /\ tags # {} /\ players # {}
    /\ gameTags = {} /\ sessionPlayers = {}


\* C21: every request that names a Game id that does not exist is answered
\* 404: a generic update, a delete, an addToWishlist or a removeFromWishlist
\* that is answered at once for a missing game is answered with status 404.
C21_MissingGameIsNotFound ==
    [][\A g \in GameIds :
        \A o \in {"putGame", "deleteGame", "addWishlist", "removeWishlist"} :
            (~GameExists(g) /\ Answered(o, g)) => last'.resp.status = 404
      ]_vars


\* C27: a game create or update that ends in an error response leaves the
\* store as it was, without the Tag rows it created on the way.  While no
\* game was ever created every finished request was such a failed one (an
\* update of a game id that does not exist), so once no handler is
\* suspended the Tag table is as empty as it started.
C27_FailedWriteLeavesNoLabel ==
    (nextGameId = 0 /\ inflight = EmptyBag) => tags = {}


\* C26: in every reachable state every Wishlist, Session and File row
\* references a Game that exists, also when a game is deleted between the
\* existence check and the row creation of a concurrent request.
C26_RowsReferenceGames ==
    /\ \A w \in BagToSet(wishlist) : GameExists(w.gameId)
    /\ \A s \in sessions : GameExists(s.gameId)
    /\ \A f \in files : GameExists(f.gameId)

\* C26 witness: an addToWishlist passed its existence check, the game was
\* deleted, and the late create was refused and added no row, while the
\* other game has dependent rows.
C26_Witness ==
    /\ last.op = "addWishlist" /\ last.resp = errorHandling
    /\ ~GameExists(last.gameId)
    /\ ~HasWishlist(last.gameId)
    /\ \E k \in DOMAIN games : \E s \in sessions : s.gameId = k

\* The rows of every game but g, and every table but Wishlist and Game, are
\* the same before and after the step; no Game row comes or goes.
OthersUntouched(g) ==
    /\ DOMAIN games' = DOMAIN games
    /\ \A k \in DOMAIN games \ {g} : games'[k] = games[k]
    /\ \A k \in TagGameIds \ {g} :
          /\ WishlistRows(k)' = WishlistRows(k)
          /\ WishlistCount(k)' = WishlistCount(k)
    /\ UNCHANGED <<nextGameId, gameTags, sessions, files, labelTables>>

\* C30: a step of addToWishlist(g) or removeFromWishlist(g) changes nothing
\* but g's own Wishlist row and, for removeFromWishlist, g.isOwned; a step
\* of addToWishlist changes no isOwned flag, and a step that answers with an
\* error changes nothing at all.
C30_WishlistFrame ==
    [][\A g \in TagGameIds :
        /\ (Answered("addWishlist", g) \/ Answered("removeWishlist", g)) =>
               StoreUnchanged
        /\ \A h \in BagToSet(inflight') :
               (h.pc \in {"aw_check", "rw_tx"} /\ h.gameId = g /\ Suspended(h)) =>
                   StoreUnchanged
        /\ \A h \in BagToSet(inflight) :
               (h.pc \in {"aw_check", "aw_create", "rw_tx"} /\ h.gameId = g
                  /\ Resumed(h)) =>
                   /\ OthersUntouched(g)
                   /\ h.pc \in {"aw_check", "aw_create"} => games' = games
                   /\ h.pc = "aw_check" => StoreUnchanged
                   /\ (Returned(h) /\ last'.resp.status >= 400) => StoreUnchanged
      ]_vars

\* C30 witness: a removeFromWishlist has just committed for one game while
\* the other game is unowned and wishlisted and tags, players, a session and
\* a file are in place.
C30_Witness ==
    /\ last.op = "removeWishlist" /\ last.resp.status = 200
    /\ \E k \in DOMAIN games \ {last.gameId} : HasWishlist(k) /\ ~games[k].isOwned
    /\ gameTags # {} /\ sessionPlayers # {} /\ files # {}


\* C22: a call of connectWithRetry makes at most maxRetries connection
\* attempts, also when health checks run during its backoff waits: no call
\* under way is in an attempt beyond the maxRetries-th, and no call has
\* ended after more than maxRetries attempts.
C22_AtMostMaxRetriesAttempts ==
    /\ \A h \in Connecting : h.attempts <= maxRetries
    /\ lastConnect.attempts <= maxRetries

\* C28: whenever a call of connectWithRetry returns normally, the
\* connection status is true and a connection attempt made by that call
\* succeeded, whatever the shared retry counter was when the call started.
C28_ReturnMeansConnected ==
    [][(lastConnect' # lastConnect /\ lastConnect'.outcome = "returned") =>
           (isConnected' /\ lastConnect'.succeeded)
      ]_vars


\* The monitor's counters add up and the success rate is in range.
MetricsConsistent ==
    /\ metrics.totalQueries \in Nat
    /\ metrics.successfulQueries \in Nat
    /\ metrics.failedQueries \in Nat
    /\ metrics.totalQueries = metrics.successfulQueries + metrics.failedQueries
    /\ metrics.totalQueries = 0 => successRate(metrics) = 0
    /\ successRate(metrics) \in 0 .. 100

\* This step adds one query with the given outcome to the counters.
Counted(success) ==
    /\ metrics'.totalQueries = metrics.totalQueries + 1
    /\ metrics'.successfulQueries =
           metrics.successfulQueries + (IF success THEN 1 ELSE 0)
    /\ metrics'.failedQueries = metrics.failedQueries + (IF success THEN 0 ELSE 1)

\* C29: after any sequence of recordQuery, resetMetrics and health checks
\* totalQueries = successfulQueries + failedQueries with all three
\* non-negative, and successRate is 0 when totalQueries = 0 and otherwise
\* between 0 and 100; every step that changes the counters resets them or
\* adds exactly 1 to totalQueries and to exactly one of the other two, and a
\* health check (here the one GET /health answers for) is such a step.
C29_CountersConsistent ==
    /\ []MetricsConsistent
    /\ [][/\ metrics' # metrics =>
                \/ metrics' = [totalQueries |-> 0, successfulQueries |-> 0,
                               failedQueries |-> 0]
                \/ Counted(TRUE)
                \/ Counted(FALSE)
          /\ (last' # last /\ last'.op = "health") =>
                Counted(last'.resp.status = 200)
         ]_vars

\* C29 witness: health checks of both outcomes have been counted.
C29_Witness ==
    /\ last.op = "health"
    /\ metrics.successfulQueries >= 1 /\ metrics.failedQueries >= 1
    /\ metrics.totalQueries >= 2


\* A request is held by the middleware, at its health check.
EnsureHandler == [pc |-> "health", op |-> "ensureDatabaseConnection"]

\* C24: ensureDatabaseConnection ends every request in exactly one of two
\* ways, next() or 503.  A request taken with the status true is passed on
\* by next() without a health check; one taken with the status false is
\* held for the health check, and when the check settles the request is
\* answered 503 exactly if the check failed and passed on by next()
\* exactly if it succeeded (a request the process exits under gets neither).
C24_NextOrUnavailable ==
    [][/\ (inflight' = inflight /\ last' # last
             /\ last'.op = "ensureDatabaseConnection") =>
              /\ isConnected
              /\ last'.resp = NextCalled
              /\ metrics' = metrics
       /\ Suspended(EnsureHandler) => ~isConnected
       /\ (Resumed(EnsureHandler) /\ Running') =>
              /\ Returned(EnsureHandler)
              /\ last'.op = "ensureDatabaseConnection"
              /\ \/ /\ Counted(FALSE)
                    /\ last'.resp.status = 503
                    /\ ~isConnected'
                 \/ /\ Counted(TRUE)
                    /\ last'.resp = NextCalled
                    /\ isConnected'
      ]_vars

\* C24 witness: a request taken while the status was false has just been
\* answered 503 after its health check failed.
C24_Witness ==
    /\ last.op = "ensureDatabaseConnection" /\ last.resp.status = 503
    /\ ~isConnected /\ metrics.failedQueries >= 1
    /\ process.pc = "serving"


\* C25: once the initial connection has succeeded the periodic health check
\* keeps running: whenever the status is false while the database is
\* reachable (and the monitor's counters have room), the status becomes
\* true again unless the database goes down again or the process is shut
\* down, with no client request needed; a health check that fails leaves the
\* status false, and only a health check that succeeds makes it true again.
C25_RecoversByHealthCheck ==
    /\ (process.pc = "serving" /\ reachable /\ ~isConnected /\ CanRecord)
          ~> (isConnected \/ ~reachable \/ process.pc # "serving")
    /\ [][/\ Counted(FALSE) => ~isConnected'
          /\ (process.pc = "serving" /\ ~isConnected /\ isConnected') =>
                Counted(TRUE)
         ]_vars

\* C25 witness: with no client request ever made, a periodic health check
\* failed and a later one succeeded, and the status is true again.
C25_Witness ==
    /\ process.pc = "serving" /\ isConnected /\ reachable
    /\ last.op = "none" /\ inflight = EmptyBag
    /\ metrics.failedQueries >= 1 /\ metrics.successfulQueries >= 1


\* C23: after SIGINT, SIGTERM, an uncaught exception or an unhandled
\* rejection the process eventually exits, also when the disconnect
\* itself fails.
C23_ShutdownExits ==
    (ShuttingDown # {}) ~> (process.pc = "exited")

=============================================================================
